---- MODULE Spec2Model ----
(***************************************************************************)
(* Verification model of srt-rs:                                           *)
(*   - the NAK loss-list codec (srt-protocol, loss_compression.rs),        *)
(*   - the socket builder (src/builder.rs),                                *)
(*   - the handshake and the receive path, as far as the builder and the   *)
(*     interop tests use them.                                             *)
(***************************************************************************)
EXTENDS Integers, Sequences, FiniteSets, TLC

VARIABLES
    build,          \* "debug" | "release": the profile the crate is compiled with
    \* ---- CompressLossList over the input list xs ----
    xs,             \* the input loss list (what `iterator` walks over)
    epos,           \* CompressLossList.iterator: number of elements already pulled
    next,           \* CompressLossList.next: Option<SeqNumber>
    last_in_loop,   \* CompressLossList.last_in_loop: Option<SeqNumber>
    eout,           \* the words returned so far by CompressLossList::next
    estatus,        \* "running" | "done" (next() returned None) | "panic" | "off"
    \* ---- DecompressLossList over the word list words ----
    words,          \* the input word list (what `iterator` walks over)
    dpos,           \* DecompressLossList.iterator: number of words already pulled
    loop_next_end,  \* DecompressLossList.loop_next_end: Option<(u32, u32)>
    dout,           \* the sequence numbers returned so far by DecompressLossList::next
    dstatus,        \* "idle" | "running" | "done" | "unterminated" | "overflow" | "off"
    \* ---- SrtSocketBuilder and the connection it makes ----
    made_by,        \* the constructor call that made the builder
    builder,        \* Option<SrtSocketBuilder>: None before construction
    call,           \* the build method called on the builder, "none" before
    result,         \* what the build method returned, kind "Pending" before
    ep,             \* the two handshake endpoints: "local" (ours) and "peer"
    net,            \* handshake packets in flight
    \* ---- a connected session: sender, network, receiver ----
    now,            \* the clock, in ticks
    next_to_send,   \* sender: number of messages sent so far
    send_buf,       \* sender: messages sent and not yet acknowledged
    rtx_queue,      \* sender: messages marked for retransmission
    chan,           \* data packets in flight
    nak,            \* Option: the loss list of the Nak in flight
    largest_received_seq,   \* receiver: largest sequence number seen
    rcv_buf,        \* receiver: received packets not yet released
    loss_list,      \* receiver: sequence numbers known lost
    last_released,  \* receiver: last sequence number released or skipped
    delivered       \* the messages recv has returned to the application

connVars == <<made_by, builder, call, result, ep, net>>

sessVars == <<now, next_to_send, send_buf, rtx_queue, chan, nak,
              largest_received_seq, rcv_buf, loss_list, last_released, delivered>>

codecVars == <<build, xs, epos, next, last_in_loop, eout, estatus,
               words, dpos, loop_next_end, dout, dstatus>>

----------------------------------------------------------------------------
(* Bounds of the model *)

MaxLen == 4                 \* longest input loss list
MaxWords == 3               \* longest word list handed to the decoder directly
MaxOut == MaxLen + 2        \* DecompressLossList::next calls that may return a number
MaxMsgs == 3                \* messages the sending application hands over
MaxNow == 3                 \* ticks the clock runs
TsbpdTicks == 1             \* the agreed TSBPD latency, in ticks

----------------------------------------------------------------------------
(* 31-bit sequence numbers and 32-bit words *)

MaxSeq == 2147483647        \* 2^31 - 1, the mask !(1 << 31)
Half == 1073741824          \* 2^30

\* Option<T>: None is the empty tuple, Some(x) the one-element tuple
None == <<>>
Some(x) == <<x>>

\* SeqNumber + u32 for the increments 1 and 2 the codec uses, modulo 2^31
SeqAdd(a, n) == IF a <= MaxSeq - n THEN a + n ELSE n - 1 - (MaxSeq - a)

\* (b - a) mod 2^31
SeqDist(a, b) == IF b >= a THEN b - a ELSE (MaxSeq - a) + (b + 1)

\* SeqNumber's modular `<`
SeqLt(a, b) == a # b /\ SeqDist(a, b) < Half

\* a u32 is kept as bit 31 and the low 31 bits
U32(m, l) == [msb |-> m, low |-> l]

\* SeqNumber::as_raw
as_raw(s) == U32(0, s)

\* SeqNumber::new_truncate: the value modulo 2^31
new_truncate(w) == w.low

\* w | 1 << 31
SetMsb(w) == [w EXCEPT !.msb = 1]

\* w & !(1 << 31)
ClearMsb(w) == [w EXCEPT !.msb = 0]

\* w & (1 << 31) != 0
HasMsb(w) == w.msb = 1

\* w + 1 on u32 overflows
U32AddOverflows(w) == w.msb = 1 /\ w.low = MaxSeq

\* w + 1 on u32 (wrapping, as the release profile computes it)
U32Add1(w) ==
    IF w.low < MaxSeq THEN U32(w.msb, w.low + 1)
    ELSE IF w.msb = 0 THEN U32(1, 0)
    ELSE U32(0, 0)

\* Iterator::next of a slice iterator standing after pos elements of list
IterNext(list, pos) == IF pos < Len(list) THEN Some(list[pos + 1]) ELSE None

----------------------------------------------------------------------------
(* Inputs *)

SeqVals == {0, 1, 2, Half, MaxSeq - 1, MaxSeq}
WordVals == {U32(m, l) : m \in {0, 1}, l \in {0, 1, 2, MaxSeq}}

SeqsUpTo(S, n) == UNION {[1..k -> S] : k \in 0..n}

----------------------------------------------------------------------------
(* CompressLossList *)

\* compress_loss_list: the fresh encoder
compress_loss_list == [pos |-> 0, next |-> None, last_in_loop |-> None]

\* the assertion weakened to `this <= self.next?`
SortedCheck_le(this, nxt) == this = nxt \/ SeqLt(this, nxt)

\* the assertion `this < self.next?` (the list must be sorted)
SortedCheck(this, nxt) == SeqLt(this, nxt)

\* the continuation test off by one: `last_in_loop + 1 == self.next?`
ContinuesLoop_plus1(lil, nxt) == SeqAdd(lil, 1) = nxt

\* `last_in_loop + 2 == self.next?`: the run in progress goes on
ContinuesLoop(lil, nxt) == SeqAdd(lil, 2) = nxt

\* the run start test off by one: `this + 2 == self.next?`
StartsLoop_plus2(this, nxt) == SeqAdd(this, 2) = nxt

\* `this + 1 == self.next?`: a run starts at this
StartsLoop(this, nxt) == SeqAdd(this, 1) = nxt

\* the run in progress never consulted
InLoop_never(lil) == FALSE

\* `if let Some(last_in_loop) = self.last_in_loop`: a run is in progress
InLoop(lil) == lil # None

\* The `loop` of CompressLossList::next, entered with self.next = Some(this).
\* Yields the encoder fields after the call, the returned word (ret) and
\* whether the assertion failed (panic).
RECURSIVE CompressLoop(_, _, _, _)
CompressLoop(list, pos, nxt, lil) ==
    LET this == nxt[1]
        i == IterNext(list, pos)
    IN  IF i = None
        THEN [pos |-> pos, next |-> None, last_in_loop |-> lil,
              ret |-> Some(as_raw(this)), panic |-> FALSE]
        ELSE IF ~SortedCheck(this, i[1])
        THEN [pos |-> pos + 1, next |-> i, last_in_loop |-> lil,
              ret |-> None, panic |-> TRUE]
        ELSE IF InLoop(lil)
        THEN IF ContinuesLoop(lil[1], i[1])
             THEN CompressLoop(list, pos + 1, i, Some(SeqAdd(lil[1], 1)))
             ELSE [pos |-> pos + 1, next |-> i, last_in_loop |-> None,
                   ret |-> Some(as_raw(this)), panic |-> FALSE]
        ELSE IF StartsLoop(this, i[1])
        THEN [pos |-> pos + 1, next |-> i, last_in_loop |-> Some(this),
              ret |-> Some(SetMsb(as_raw(this))), panic |-> FALSE]
        ELSE [pos |-> pos + 1, next |-> i, last_in_loop |-> None,
              ret |-> Some(as_raw(this)), panic |-> FALSE]

\* One call of CompressLossList::next
CompressNext ==
    /\ estatus = "running"
    /\ LET first == IF next = None THEN IterNext(xs, epos) ELSE next
           pos1 == IF next = None /\ first # None THEN epos + 1 ELSE epos
       IN  IF first = None
           THEN /\ estatus' = "done"
                /\ UNCHANGED <<epos, next, last_in_loop, eout>>
           ELSE LET r == CompressLoop(xs, pos1, first, last_in_loop)
                IN  /\ epos' = r.pos
                    /\ next' = r.next
                    /\ last_in_loop' = r.last_in_loop
                    /\ eout' = IF r.panic THEN eout ELSE Append(eout, r.ret[1])
                    /\ estatus' = IF r.panic THEN "panic" ELSE "running"
    /\ UNCHANGED <<build, xs, words, dpos, loop_next_end, dout, dstatus>>
    /\ UNCHANGED <<connVars, sessVars>>

----------------------------------------------------------------------------
(* DecompressLossList *)

\* decompress_loss_list over the collected output of the encoder
decompress_loss_list ==
    /\ estatus = "done"
    /\ dstatus = "idle"
    /\ words' = eout
    /\ dpos' = 0
    /\ loop_next_end' = None
    /\ dstatus' = "running"
    /\ UNCHANGED <<build, xs, epos, next, last_in_loop, eout, estatus, dout>>
    /\ UNCHANGED <<connVars, sessVars>>

\* `Some((next, end)) if next == end`: the run is over
LoopIsOver(nxt, end) == nxt = end

\* a missing run end that ends the iteration quietly: `None => return None`
OnMissingRunEnd_none == "done"

\* `None => panic!("unterminated loop while decompressing loss list")`
OnMissingRunEnd == "unterminated"

\* One call of DecompressLossList::next
DecompressNext ==
    /\ dstatus = "running"
    /\ Len(dout) < MaxOut
    /\ IF loop_next_end # None
       THEN LET nxt == loop_next_end[1][1]
                end == loop_next_end[1][2]
            IN  IF LoopIsOver(nxt, end)
                THEN /\ loop_next_end' = None
                     /\ dout' = Append(dout, new_truncate(nxt))
                     /\ UNCHANGED <<dpos, dstatus>>
                ELSE IF U32AddOverflows(nxt) /\ build = "debug"
                THEN /\ dstatus' = "overflow"
                     /\ UNCHANGED <<dpos, loop_next_end, dout>>
                ELSE /\ loop_next_end' = Some(<<U32Add1(nxt), end>>)
                     /\ dout' = Append(dout, new_truncate(nxt))
                     /\ UNCHANGED <<dpos, dstatus>>
       ELSE LET w == IterNext(words, dpos)
            IN  IF w = None
                THEN /\ dstatus' = "done"
                     /\ UNCHANGED <<dpos, loop_next_end, dout>>
                ELSE IF HasMsb(w[1])
                THEN LET next_num == ClearMsb(w[1])
                         e == IterNext(words, dpos + 1)
                     IN  IF e = None
                         THEN /\ dstatus' = OnMissingRunEnd
                              /\ dpos' = dpos + 1
                              /\ UNCHANGED <<loop_next_end, dout>>
                         ELSE /\ loop_next_end' = Some(<<U32Add1(next_num), e[1]>>)
                              /\ dpos' = dpos + 2
                              /\ dout' = Append(dout, new_truncate(next_num))
                              /\ UNCHANGED dstatus
                ELSE /\ dpos' = dpos + 1
                     /\ dout' = Append(dout, new_truncate(w[1]))
                     /\ UNCHANGED <<loop_next_end, dstatus>>
    /\ UNCHANGED <<build, xs, epos, next, last_in_loop, eout, estatus, words>>
    /\ UNCHANGED <<connVars, sessVars>>

----------------------------------------------------------------------------
(* SrtSocketBuilder *)

DefaultLatency == 50        \* Duration::from_millis(50)

NoAddr == [ip |-> "-", port |-> 0]
AnyAddr == [ip |-> "0.0.0.0", port |-> 0]           \* "0.0.0.0:0"
PeerAddr == [ip |-> "127.0.0.1", port |-> 4444]     \* where the peer is bound
OtherAddr == [ip |-> "127.0.0.1", port |-> 5555]    \* nobody is bound there

\* ConnInitMethod
Listen == [kind |-> "Listen", addr |-> NoAddr]
Connect(addr) == [kind |-> "Connect", addr |-> addr]
Rendezvous(addr) == [kind |-> "Rendezvous", addr |-> addr]
NoMethod == [kind |-> "-", addr |-> NoAddr]

\* Inputs of the builder calls
RemoteAddrs == {PeerAddr, OtherAddr}
ConnInitMethods == {Listen} \cup {Connect(a) : a \in RemoteAddrs}
                            \cup {Rendezvous(a) : a \in RemoteAddrs}
LocalIps == {"0.0.0.0", "127.0.0.1"}
LocalPorts == {0, 3333}
Latencies == {DefaultLatency, 99, 123}
CryptoSizes == {16, 17, 24, 32}
Passphrases == {"passphrase"}

\* SrtSocketBuilder::new
new(ct) ==
    [local_addr |-> AnyAddr, conn_type |-> ct,
     latency |-> DefaultLatency, crypto |-> None]

\* SrtSocketBuilder::new_listen
new_listen ==
    [local_addr |-> AnyAddr, conn_type |-> Listen,
     latency |-> DefaultLatency, crypto |-> None]

\* SrtSocketBuilder::new_connect
new_connect(to) ==
    [local_addr |-> AnyAddr, conn_type |-> Connect(to),
     latency |-> DefaultLatency, crypto |-> None]

\* SrtSocketBuilder::new_rendezvous
new_rendezvous(to) ==
    [local_addr |-> AnyAddr, conn_type |-> Connect(to),
     latency |-> DefaultLatency, crypto |-> None]

\* SrtSocketBuilder::conn_type
conn_type(b) == b.conn_type

\* SrtSocketBuilder::local_addr
local_addr(b, ip) == [b EXCEPT !.local_addr.ip = ip]

\* the port set by building a fresh address, which loses the IP
local_port_fresh_addr(b, port) == [b EXCEPT !.local_addr = [ip |-> "0.0.0.0", port |-> port]]

\* SrtSocketBuilder::local_port
local_port(b, port) == [b EXCEPT !.local_addr.port = port]

\* SrtSocketBuilder::latency
latency(b, l) == [b EXCEPT !.latency = l]

\* SrtSocketBuilder::crypto
crypto(b, size, passphrase) == [b EXCEPT !.crypto = Some(<<size, passphrase>>)]

\* the `validate crypto` match of connect_with_sock: TRUE for the OK arm
ValidCrypto(b) == b.crypto = None \/ b.crypto[1][1] \in {16, 24, 32}

\* the match on conn_type passing the default latency instead of self.latency
HandshakeCall_default_latency(b) ==
    IF b.conn_type.kind = "Listen"
    THEN [role |-> "listen", remote |-> NoAddr, latency |-> DefaultLatency]
    ELSE IF b.conn_type.kind = "Connect"
    THEN [role |-> "connect", remote |-> b.conn_type.addr, latency |-> DefaultLatency]
    ELSE [role |-> "rendezvous", remote |-> b.conn_type.addr, latency |-> DefaultLatency]

\* the handshake connect_with_sock runs for the builder's conn_type, with the
\* arguments it passes on
HandshakeCall(b) ==
    IF b.conn_type.kind = "Listen"
    THEN [role |-> "listen", remote |-> NoAddr, latency |-> b.latency]
    ELSE IF b.conn_type.kind = "Connect"
    THEN [role |-> "connect", remote |-> b.conn_type.addr, latency |-> b.latency]
    ELSE [role |-> "rendezvous", remote |-> b.conn_type.addr, latency |-> b.latency]

\* Result<SrtSocket, Error> / Result<MultiplexServer, Error>
Pending == [kind |-> "Pending", err |-> "", addr |-> NoAddr, latency |-> 0]
Err(e) == [kind |-> "Err", err |-> e, addr |-> NoAddr, latency |-> 0]
OkSocket(tsbpd) == [kind |-> "Socket", err |-> "", addr |-> NoAddr, latency |-> tsbpd]
OkServer(addr, l) == [kind |-> "Server", err |-> "", addr |-> addr, latency |-> l]

----------------------------------------------------------------------------
(* pending_connection: the listener, caller and rendezvous handshakes *)

Endpoints == {"local", "peer"}
Other(e) == IF e = "local" THEN "peer" ELSE "local"
Cookies == {1, 2}

Max(a, b) == IF a >= b THEN a ELSE b

\* the latency both sides agree on
AgreedLatency(ours, theirs) == Max(ours, theirs)

IdleEp == [role |-> "none", state |-> "Idle", latency |-> 0, cookie |-> 0,
           remote |-> NoAddr, tsbpd |-> 0]

\* where a packet of endpoint e sent to address remote arrives: the peer is
\* bound at PeerAddr and is pointed at us; a listener answers its sender
Dst(e, remote) ==
    IF e = "peer" \/ remote = PeerAddr \/ remote = NoAddr THEN Other(e) ELSE "nowhere"

Packet(e, type, cookie, lat) ==
    [dst |-> Dst(e, ep[e].remote), type |-> type, cookie |-> cookie, latency |-> lat]

\* entering pending_connection::listen / connect / rendezvous: the endpoint's
\* first state and the packets it emits
HsStartEp(h, cookie) ==
    [role |-> h.role,
     state |-> IF h.role = "listen" THEN "Waiting"
               ELSE IF h.role = "connect" THEN "InductionSent"
               ELSE "Rendezvous",
     latency |-> h.latency, cookie |-> cookie, remote |-> h.remote, tsbpd |-> 0]

HsStartPackets(e, h, cookie) ==
    IF h.role = "listen" THEN {}
    ELSE IF h.role = "connect"
    THEN {[dst |-> Dst(e, h.remote), type |-> "induction", cookie |-> 0, latency |-> 0]}
    ELSE {[dst |-> Dst(e, h.remote), type |-> "rendezvous", cookie |-> cookie, latency |-> 0]}

\* the peer (another SRT endpoint) starts its side
PeerStart ==
    /\ call \in {"connect", "connect_with_sock"}
    /\ ep["peer"].role = "none"
    /\ \E role \in {"listen", "connect", "rendezvous"}, l \in Latencies, c \in Cookies :
          LET h == [role |-> role, remote |-> NoAddr, latency |-> l]
          IN  /\ ep' = [ep EXCEPT !["peer"] = HsStartEp(h, c)]
              /\ net' = net \cup HsStartPackets("peer", h, c)
    /\ UNCHANGED <<made_by, builder, call, result>>
    /\ UNCHANGED <<codecVars, sessVars>>

\* Listener, Waiting: an induction is answered with an induction carrying the cookie
ListenerOnInduction ==
    /\ \E e \in Endpoints, p \in net :
          /\ p.dst = e
          /\ ep[e].role = "listen" /\ ep[e].state = "Waiting"
          /\ p.type = "induction"
          /\ net' = (net \ {p}) \cup {Packet(e, "induction", ep[e].cookie, 0)}
          /\ UNCHANGED ep
    /\ UNCHANGED <<made_by, builder, call, result>>
    /\ UNCHANGED <<codecVars, sessVars>>

\* Listener, Waiting: a conclusion echoing the cookie concludes the handshake;
\* one with another cookie is dropped silently
ListenerOnConclusion ==
    /\ \E e \in Endpoints, p \in net :
          /\ p.dst = e
          /\ ep[e].role = "listen" /\ ep[e].state = "Waiting"
          /\ p.type = "conclusion"
          /\ IF p.cookie = ep[e].cookie
             THEN LET agreed == AgreedLatency(ep[e].latency, p.latency)
                  IN  /\ ep' = [ep EXCEPT ![e].state = "Connected", ![e].tsbpd = agreed]
                      /\ net' = (net \ {p}) \cup {Packet(e, "conclusion", p.cookie, agreed)}
             ELSE /\ net' = net \ {p}
                  /\ UNCHANGED ep
    /\ UNCHANGED <<made_by, builder, call, result>>
    /\ UNCHANGED <<codecVars, sessVars>>

\* Caller, InductionSent: the induction reply with a cookie is answered with
\* the conclusion echoing it
CallerOnInduction ==
    /\ \E e \in Endpoints, p \in net :
          /\ p.dst = e
          /\ ep[e].role = "connect" /\ ep[e].state = "InductionSent"
          /\ p.type = "induction" /\ p.cookie # 0
          /\ ep' = [ep EXCEPT ![e].state = "ConclusionSent"]
          /\ net' = (net \ {p}) \cup {Packet(e, "conclusion", p.cookie, ep[e].latency)}
    /\ UNCHANGED <<made_by, builder, call, result>>
    /\ UNCHANGED <<codecVars, sessVars>>

\* Caller, ConclusionSent: the conclusion reply yields the connection
CallerOnConclusion ==
    /\ \E e \in Endpoints, p \in net :
          /\ p.dst = e
          /\ ep[e].role = "connect" /\ ep[e].state = "ConclusionSent"
          /\ p.type = "conclusion"
          /\ ep' = [ep EXCEPT ![e].state = "Connected",
                              ![e].tsbpd = AgreedLatency(ep[e].latency, p.latency)]
          /\ net' = net \ {p}
    /\ UNCHANGED <<made_by, builder, call, result>>
    /\ UNCHANGED <<codecVars, sessVars>>

\* Rendezvous: the greater cookie makes the initiator, which sends the
\* conclusion; the smaller the responder; equal cookies fail the handshake
RendezvousOnHandshake ==
    /\ \E e \in Endpoints, p \in net :
          /\ p.dst = e
          /\ ep[e].role = "rendezvous" /\ ep[e].state = "Rendezvous"
          /\ p.type = "rendezvous"
          /\ IF ep[e].cookie > p.cookie
             THEN /\ ep' = [ep EXCEPT ![e].state = "Initiator"]
                  /\ net' = (net \ {p})
                               \cup {Packet(e, "conclusion", ep[e].cookie, ep[e].latency)}
             ELSE /\ ep' = [ep EXCEPT ![e].state =
                                IF ep[e].cookie < p.cookie THEN "Responder" ELSE "Failed"]
                  /\ net' = net \ {p}
    /\ UNCHANGED <<made_by, builder, call, result>>
    /\ UNCHANGED <<codecVars, sessVars>>

\* Rendezvous responder: accepts the initiator's conclusion like a listener
ResponderOnConclusion ==
    /\ \E e \in Endpoints, p \in net :
          /\ p.dst = e
          /\ ep[e].role = "rendezvous" /\ ep[e].state = "Responder"
          /\ p.type = "conclusion"
          /\ LET agreed == AgreedLatency(ep[e].latency, p.latency)
             IN  /\ ep' = [ep EXCEPT ![e].state = "Connected", ![e].tsbpd = agreed]
                 /\ net' = (net \ {p}) \cup {Packet(e, "conclusion", p.cookie, agreed)}
    /\ UNCHANGED <<made_by, builder, call, result>>
    /\ UNCHANGED <<codecVars, sessVars>>

\* Rendezvous initiator: the responder's conclusion yields the connection
InitiatorOnConclusion ==
    /\ \E e \in Endpoints, p \in net :
          /\ p.dst = e
          /\ ep[e].role = "rendezvous" /\ ep[e].state = "Initiator"
          /\ p.type = "conclusion"
          /\ ep' = [ep EXCEPT ![e].state = "Connected",
                              ![e].tsbpd = AgreedLatency(ep[e].latency, p.latency)]
          /\ net' = net \ {p}
    /\ UNCHANGED <<made_by, builder, call, result>>
    /\ UNCHANGED <<codecVars, sessVars>>

\* UDP loses a packet
Lose ==
    /\ \E p \in net : net' = net \ {p}
    /\ UNCHANGED <<made_by, builder, call, result, ep>>
    /\ UNCHANGED <<codecVars, sessVars>>

\* 3 s without progress fail the handshake
HandshakeTimeout ==
    /\ \E e \in Endpoints :
          /\ ep[e].state \notin {"Idle", "Connected", "Failed"}
          /\ ep' = [ep EXCEPT ![e].state = "Failed"]
    /\ UNCHANGED <<made_by, builder, call, result, net>>
    /\ UNCHANGED <<codecVars, sessVars>>

----------------------------------------------------------------------------
(* The builder's methods as steps *)

New ==
    /\ builder = None
    /\ \E ct \in ConnInitMethods :
          /\ builder' = Some(new(ct))
          /\ made_by' = [ctor |-> "new", ct |-> ct, to |-> NoAddr]
    /\ UNCHANGED <<call, result, ep, net>>
    /\ UNCHANGED <<codecVars, sessVars>>

NewListen ==
    /\ builder = None
    /\ builder' = Some(new_listen)
    /\ made_by' = [ctor |-> "new_listen", ct |-> NoMethod, to |-> NoAddr]
    /\ UNCHANGED <<call, result, ep, net>>
    /\ UNCHANGED <<codecVars, sessVars>>

NewConnect ==
    /\ builder = None
    /\ \E to \in RemoteAddrs :
          /\ builder' = Some(new_connect(to))
          /\ made_by' = [ctor |-> "new_connect", ct |-> NoMethod, to |-> to]
    /\ UNCHANGED <<call, result, ep, net>>
    /\ UNCHANGED <<codecVars, sessVars>>

NewRendezvous ==
    /\ builder = None
    /\ \E to \in RemoteAddrs :
          /\ builder' = Some(new_rendezvous(to))
          /\ made_by' = [ctor |-> "new_rendezvous", ct |-> NoMethod, to |-> to]
    /\ UNCHANGED <<call, result, ep, net>>
    /\ UNCHANGED <<codecVars, sessVars>>

LocalAddr ==
    /\ builder # None /\ call = "none"
    /\ \E ip \in LocalIps : builder' = Some(local_addr(builder[1], ip))
    /\ UNCHANGED <<made_by, call, result, ep, net>>
    /\ UNCHANGED <<codecVars, sessVars>>

LocalPort ==
    /\ builder # None /\ call = "none"
    /\ \E port \in LocalPorts : builder' = Some(local_port(builder[1], port))
    /\ UNCHANGED <<made_by, call, result, ep, net>>
    /\ UNCHANGED <<codecVars, sessVars>>

Latency ==
    /\ builder # None /\ call = "none"
    /\ \E l \in Latencies : builder' = Some(latency(builder[1], l))
    /\ UNCHANGED <<made_by, call, result, ep, net>>
    /\ UNCHANGED <<codecVars, sessVars>>

Crypto ==
    /\ builder # None /\ call = "none"
    /\ \E size \in CryptoSizes, passphrase \in Passphrases :
          builder' = Some(crypto(builder[1], size, passphrase))
    /\ UNCHANGED <<made_by, call, result, ep, net>>
    /\ UNCHANGED <<codecVars, sessVars>>

\* connect_with_sock up to its first await: the crypto validation and the
\* entry into the handshake of the builder's conn_type
connect_with_sock(b) ==
    IF ~ValidCrypto(b)
    THEN /\ result' = Err("InvalidCryptoSize")
         /\ UNCHANGED <<ep, net>>
    ELSE \E c \in Cookies :
            /\ ep' = [ep EXCEPT !["local"] = HsStartEp(HandshakeCall(b), c)]
            /\ net' = net \cup HsStartPackets("local", HandshakeCall(b), c)
            /\ UNCHANGED result

ConnectWithSock ==
    /\ builder # None /\ call = "none"
    /\ call' = "connect_with_sock"
    /\ connect_with_sock(builder[1])
    /\ UNCHANGED <<made_by, builder>>
    /\ UNCHANGED <<codecVars, sessVars>>

\* connect: bind the UDP socket to local_addr, then connect_with_sock
ConnectMethod ==
    /\ builder # None /\ call = "none"
    /\ call' = "connect"
    /\ \E bind_ok \in BOOLEAN :
          IF bind_ok
          THEN connect_with_sock(builder[1])
          ELSE /\ result' = Err("Bind")
               /\ UNCHANGED <<ep, net>>
    /\ UNCHANGED <<made_by, builder>>
    /\ UNCHANGED <<codecVars, sessVars>>

\* the handshake future resolves: connect_with_sock returns
ConnectReturn ==
    /\ call \in {"connect", "connect_with_sock"}
    /\ result = Pending
    /\ ep["local"].state \in {"Connected", "Failed"}
    /\ result' = IF ep["local"].state = "Connected"
                 THEN OkSocket(ep["local"].tsbpd)
                 ELSE Err("Handshake")
    /\ UNCHANGED <<made_by, builder, call, ep, net>>
    /\ UNCHANGED <<codecVars, sessVars>>

\* build_multiplexed binding whatever the connection method is
build_multiplexed_any_method(b, bind_ok) ==
    IF bind_ok THEN OkServer(b.local_addr, b.latency) ELSE Err("Bind")

\* build_multiplexed: what it returns, bind_ok telling whether
\* MultiplexServer::bind succeeds
build_multiplexed(b, bind_ok) ==
    IF b.conn_type.kind = "Listen"
    THEN IF bind_ok THEN OkServer(b.local_addr, b.latency) ELSE Err("Bind")
    ELSE Err("NotListen")

BuildMultiplexed ==
    /\ builder # None /\ call = "none"
    /\ call' = "build_multiplexed"
    /\ \E bind_ok \in BOOLEAN : result' = build_multiplexed(builder[1], bind_ok)
    /\ UNCHANGED <<made_by, builder, ep, net>>
    /\ UNCHANGED <<codecVars, sessVars>>

----------------------------------------------------------------------------
(* A connected session: the sender, the network and the receiver *)

\* the initial sequence number of the session, two before the wrap
InitSeq == MaxSeq - 1

SeqPrev(a) == IF a = 0 THEN MaxSeq ELSE a - 1

\* the sequence number of the k-th message (one data packet per message)
SeqOf(k) == SeqAdd(InitSeq, k)

DataPacket(k, ts, rtx) == [seq |-> SeqOf(k), msg |-> k, ts |-> ts, rtx |-> rtx]

\* Sender: the application sends the next message, one message per tick
Send ==
    /\ next_to_send < MaxMsgs
    /\ now = next_to_send
    /\ rtx_queue = {}
    /\ chan' = chan \cup {DataPacket(next_to_send, now, FALSE)}
    /\ send_buf' = send_buf \cup {[msg |-> next_to_send, ts |-> now]}
    /\ next_to_send' = next_to_send + 1
    /\ UNCHANGED <<now, rtx_queue, nak, largest_received_seq, rcv_buf, loss_list,
                   last_released, delivered>>
    /\ UNCHANGED <<codecVars, connVars>>

\* Sender: the lowest packet marked for retransmission is sent again
Retransmit ==
    /\ rtx_queue # {}
    /\ LET m == CHOOSE x \in rtx_queue : \A y \in rtx_queue : x.msg <= y.msg
       IN  /\ chan' = chan \cup {DataPacket(m.msg, m.ts, TRUE)}
           /\ rtx_queue' = rtx_queue \ {m}
    /\ UNCHANGED <<now, next_to_send, send_buf, nak, largest_received_seq, rcv_buf,
                   loss_list, last_released, delivered>>
    /\ UNCHANGED <<codecVars, connVars>>

\* Sender: a Nak marks the listed packets of the send buffer for retransmission
SenderOnNak ==
    /\ nak # None
    /\ rtx_queue' = rtx_queue \cup {m \in send_buf : SeqOf(m.msg) \in nak[1]}
    /\ nak' = None
    /\ UNCHANGED <<now, next_to_send, send_buf, chan, largest_received_seq, rcv_buf,
                   loss_list, last_released, delivered>>
    /\ UNCHANGED <<codecVars, connVars>>

\* the next expected sequence number: the first gap after the contiguous prefix
AckNumber ==
    IF loss_list = {} THEN SeqAdd(largest_received_seq, 1)
    ELSE CHOOSE g \in loss_list : \A h \in loss_list : g = h \/ SeqLt(g, h)

\* Receiver: the ACK timer sends a full Ack; on it the sender removes every
\* packet below the acknowledged number
FullAck ==
    /\ send_buf # {}
    /\ send_buf' = {m \in send_buf : ~SeqLt(SeqOf(m.msg), AckNumber)}
    /\ rtx_queue' = {m \in rtx_queue : ~SeqLt(SeqOf(m.msg), AckNumber)}
    /\ UNCHANGED <<now, next_to_send, chan, nak, largest_received_seq, rcv_buf,
                   loss_list, last_released, delivered>>
    /\ UNCHANGED <<codecVars, connVars>>

\* the network loses a data packet
DataLost ==
    /\ \E p \in chan : chan' = chan \ {p}
    /\ UNCHANGED <<now, next_to_send, send_buf, rtx_queue, nak, largest_received_seq,
                   rcv_buf, loss_list, last_released, delivered>>
    /\ UNCHANGED <<codecVars, connVars>>

\* the network loses the Nak
NakLost ==
    /\ nak # None
    /\ nak' = None
    /\ UNCHANGED <<now, next_to_send, send_buf, rtx_queue, chan, largest_received_seq,
                   rcv_buf, loss_list, last_released, delivered>>
    /\ UNCHANGED <<codecVars, connVars>>

\* the gap (L, s): the sequence numbers after L and before s
Gap(lrs, s) == {g \in {SeqAdd(lrs, j) : j \in 1..MaxMsgs} : SeqLt(g, s)}

\* the duplicate test dropped: every arriving packet is taken as new
IsDuplicate_never(s) == FALSE

\* a packet at or below the largest seen number that is not in the loss list
IsDuplicate(s) == ~SeqLt(largest_received_seq, s) /\ s \notin loss_list

\* Receiver: a data packet arrives (the network may deliver it once more later)
Arrive ==
    /\ \E p \in chan, again \in BOOLEAN :
          LET s == p.seq
              pkt == [seq |-> p.seq, msg |-> p.msg, ts |-> p.ts]
          IN  /\ chan' = IF again THEN chan ELSE chan \ {p}
              /\ IF IsDuplicate(s)
                 THEN UNCHANGED <<largest_received_seq, rcv_buf, loss_list, nak>>
                 ELSE IF s = SeqAdd(largest_received_seq, 1)
                 THEN /\ rcv_buf' = rcv_buf \cup {pkt}
                      /\ largest_received_seq' = s
                      /\ UNCHANGED <<loss_list, nak>>
                 ELSE IF SeqLt(SeqAdd(largest_received_seq, 1), s)
                 THEN /\ rcv_buf' = rcv_buf \cup {pkt}
                      /\ loss_list' = loss_list \cup Gap(largest_received_seq, s)
                      /\ largest_received_seq' = s
                      /\ nak' = Some(Gap(largest_received_seq, s))
                 ELSE /\ rcv_buf' = rcv_buf \cup {pkt}
                      /\ loss_list' = loss_list \ {s}
                      /\ UNCHANGED <<largest_received_seq, nak>>
    /\ UNCHANGED <<now, next_to_send, send_buf, rtx_queue, last_released, delivered>>
    /\ UNCHANGED <<codecVars, connVars>>

\* Receiver: the NAK timer sends the whole loss list
NakTimer ==
    /\ loss_list # {}
    /\ nak' = Some(loss_list)
    /\ UNCHANGED <<now, next_to_send, send_buf, rtx_queue, chan, largest_received_seq,
                   rcv_buf, loss_list, last_released, delivered>>
    /\ UNCHANGED <<codecVars, connVars>>

\* the buffered packets whose TSBPD deadline has passed
Ready == {p \in rcv_buf : p.ts + TsbpdTicks <= now}

\* Receiver: recv releases the first buffered packet whose deadline has passed;
\* the gap before it is skipped and leaves the loss list
Recv ==
    /\ Ready # {}
    /\ LET first == SeqAdd(last_released, 1)
           p == CHOOSE x \in Ready :
                    \A y \in Ready : SeqDist(first, x.seq) <= SeqDist(first, y.seq)
       IN  /\ delivered' = Append(delivered, p.msg)
           /\ last_released' = p.seq
           /\ rcv_buf' = rcv_buf \ {p}
           /\ loss_list' = {g \in loss_list : ~SeqLt(g, p.seq)}
    /\ UNCHANGED <<now, next_to_send, send_buf, rtx_queue, chan, nak,
                   largest_received_seq>>
    /\ UNCHANGED <<codecVars, connVars>>

\* the clock advances
Tick ==
    /\ now < MaxNow
    /\ now' = now + 1
    /\ UNCHANGED <<next_to_send, send_buf, rtx_queue, chan, nak, largest_received_seq,
                   rcv_buf, loss_list, last_released, delivered>>
    /\ UNCHANGED <<codecVars, connVars>>

----------------------------------------------------------------------------
(* Specifications *)

vars == <<codecVars, connVars, sessVars>>

\* no session
SessOff ==
    /\ now = 0
    /\ next_to_send = 0
    /\ send_buf = {}
    /\ rtx_queue = {}
    /\ chan = {}
    /\ nak = None
    /\ largest_received_seq = SeqPrev(InitSeq)
    /\ rcv_buf = {}
    /\ loss_list = {}
    /\ last_released = SeqPrev(InitSeq)
    /\ delivered = <<>>

\* no builder, no connection
ConnOff ==
    /\ made_by = [ctor |-> "none", ct |-> NoMethod, to |-> NoAddr]
    /\ builder = None
    /\ call = "none"
    /\ result = Pending
    /\ ep = [e \in Endpoints |-> IdleEp]
    /\ net = {}

\* no codec running
CodecOff ==
    /\ build = "release"
    /\ xs = <<>>
    /\ epos = 0
    /\ next = None
    /\ last_in_loop = None
    /\ eout = <<>>
    /\ estatus = "off"
    /\ words = <<>>
    /\ dpos = 0
    /\ loop_next_end = None
    /\ dout = <<>>
    /\ dstatus = "off"

\* encode an input list, collect the words, decode them
Init ==
    /\ build \in {"debug", "release"}
    /\ xs \in SeqsUpTo(SeqVals, MaxLen)
    /\ epos = compress_loss_list.pos
    /\ next = compress_loss_list.next
    /\ last_in_loop = compress_loss_list.last_in_loop
    /\ eout = <<>>
    /\ estatus = "running"
    /\ words = <<>>
    /\ dpos = 0
    /\ loop_next_end = None
    /\ dout = <<>>
    /\ dstatus = "idle"
    /\ ConnOff
    /\ SessOff

Next == CompressNext \/ decompress_loss_list \/ DecompressNext

Spec == Init /\ [][Next]_vars

\* decode a word list received in a Nak
InitWire ==
    /\ build \in {"debug", "release"}
    /\ xs = <<>>
    /\ epos = 0
    /\ next = None
    /\ last_in_loop = None
    /\ eout = <<>>
    /\ estatus = "off"
    /\ words \in SeqsUpTo(WordVals, MaxWords)
    /\ dpos = 0
    /\ loop_next_end = None
    /\ dout = <<>>
    /\ dstatus = "running"
    /\ ConnOff
    /\ SessOff

NextWire == DecompressNext

SpecWire == InitWire /\ [][NextWire]_vars

\* build a socket: construct a builder, configure it, call a build method and
\* run the handshake against a peer
InitConn == CodecOff /\ ConnOff /\ SessOff

NextConn ==
    \/ New \/ NewListen \/ NewConnect \/ NewRendezvous
    \/ LocalAddr \/ LocalPort \/ Latency \/ Crypto
    \/ ConnectWithSock \/ ConnectMethod \/ BuildMultiplexed \/ ConnectReturn
    \/ PeerStart
    \/ ListenerOnInduction \/ ListenerOnConclusion
    \/ CallerOnInduction \/ CallerOnConclusion
    \/ RendezvousOnHandshake \/ ResponderOnConclusion \/ InitiatorOnConclusion
    \/ Lose \/ HandshakeTimeout

SpecConn == InitConn /\ [][NextConn]_vars

\* a connected session right after the handshake: nothing sent yet
InitSession == CodecOff /\ ConnOff /\ SessOff

NextSession ==
    \/ Send \/ Retransmit \/ SenderOnNak \/ FullAck
    \/ DataLost \/ NakLost
    \/ Arrive \/ NakTimer \/ Recv \/ Tick

SpecSession == InitSession /\ [][NextSession]_vars

----------------------------------------------------------------------------
(* Properties of the loss-list codec *)

StrictlyAscending(l) == \A i \in 1..(Len(l) - 1) : SeqLt(l[i], l[i + 1])

IsPrefix(p, l) == Len(p) <= Len(l) /\ \A i \in 1..Len(p) : p[i] = l[i]

\* index of the last element of the maximal run of consecutive numbers
\* that starts at index i of l
RECURSIVE RunLast(_, _)
RunLast(l, i) ==
    IF i < Len(l) /\ l[i + 1] = SeqAdd(l[i], 1) THEN RunLast(l, i + 1) ELSE i

\* the reference encoding of l from index i on
RECURSIVE RefCompressFrom(_, _)
RefCompressFrom(l, i) ==
    IF i > Len(l) THEN <<>>
    ELSE LET k == RunLast(l, i)
         IN  IF k = i
             THEN <<U32(0, l[i])>> \o RefCompressFrom(l, i + 1)
             ELSE <<U32(1, l[i]), U32(0, l[k])>> \o RefCompressFrom(l, k + 1)

RefCompress(l) == RefCompressFrom(l, 1)

\* the first limit numbers of the reference decoding of ws
RECURSIVE RefDecompress(_, _)
RefDecompress(ws, limit) ==
    IF ws = <<>> \/ limit = 0 THEN <<>>
    ELSE IF ~HasMsb(ws[1])
    THEN <<ws[1].low>> \o RefDecompress(Tail(ws), limit - 1)
    ELSE IF Len(ws) = 1 THEN <<>>
    ELSE LET s == ws[1].low
             d == SeqDist(s, ws[2].low)
             cnt == IF d >= limit THEN limit ELSE d + 1
         IN  [j \in 1..cnt |-> SeqAdd(s, j - 1)]
                 \o RefDecompress(Tail(Tail(ws)), limit - cnt)

\* read word by word, every run start of ws has a run end after it, and the
\* run end has bit 31 clear
RECURSIVE RunsTerminated(_)
RunsTerminated(ws) ==
    IF ws = <<>> THEN TRUE
    ELSE IF ~HasMsb(ws[1]) THEN RunsTerminated(Tail(ws))
    ELSE Len(ws) >= 2 /\ ~HasMsb(ws[2]) /\ RunsTerminated(Tail(Tail(ws)))

\* read word by word, the last word of ws is a run start with no word after it
RECURSIVE EndsInRunStart(_)
EndsInRunStart(ws) ==
    IF ws = <<>> THEN FALSE
    ELSE IF ~HasMsb(ws[1]) THEN EndsInRunStart(Tail(ws))
    ELSE Len(ws) = 1 \/ EndsInRunStart(Tail(Tail(ws)))

\* C1: decoding the encoding of a strictly ascending list yields exactly that
\* list: every number decoded so far is the list's next element, and when the
\* decoder ends it has yielded the whole list.
C1_RoundTrip ==
    StrictlyAscending(xs) =>
        /\ IsPrefix(dout, xs)
        /\ (dstatus = "done" => dout = xs)

\* C2: for a strictly ascending input the words emitted so far are the first
\* words of the reference encoding (maximal runs: first|MSB, last for a run of
\* two or more, the element itself for a run of one), and when the encoder
\* ends it has emitted exactly the reference encoding.
C2_EncodeMatchesReference ==
    StrictlyAscending(xs) =>
        /\ IsPrefix(eout, RefCompress(xs))
        /\ (estatus = "done" => eout = RefCompress(xs))

\* the encoder has ended on an input with a run of three, a run break and a
\* further element
C2_Witness ==
    /\ estatus = "done"
    /\ StrictlyAscending(xs)
    /\ Len(xs) = 4
    /\ Len(eout) = 3
    /\ HasMsb(eout[1])

\* C3: for a word list whose run starts all have a run end, the numbers
\* decoded so far are the first numbers of the reference decoding (a plain
\* word yields itself, s|MSB followed by e yields s..e inclusive), and when
\* the decoder ends it has yielded exactly the reference decoding.
C3_DecodeMatchesReference ==
    RunsTerminated(words) =>
        /\ IsPrefix(dout, RefDecompress(words, MaxOut + 1))
        /\ (dstatus = "done" => dout = RefDecompress(words, MaxOut + 1))

\* C7: the encoder fails with the ordering assertion only on an input that is
\* not strictly ascending, and it runs to its end only on one that is.
C7_OrderingViolation ==
    /\ (estatus = "panic" => ~StrictlyAscending(xs))
    /\ (estatus = "done" => StrictlyAscending(xs))

\* the ordering assertion has failed on equal neighbours
C7_Witness ==
    /\ estatus = "panic"
    /\ epos >= 2
    /\ xs[epos - 1] = xs[epos]

\* C8: the decoder fails with the unterminated-run panic exactly on a word
\* list whose last word is read as a run start: it fails only there, with
\* every earlier word consumed and no run pending, it never ends normally on
\* such a list, and the failing call yields no number.
C8_UnterminatedRun ==
    /\ [](dstatus = "unterminated" =>
            /\ EndsInRunStart(words)
            /\ dpos = Len(words)
            /\ loop_next_end = None)
    /\ [](dstatus = "done" => ~EndsInRunStart(words))
    /\ [][dstatus' = "unterminated" => dout' = dout]_vars

\* the decoder has failed on a trailing run start after yielding the numbers
\* of the words before it
C8_Witness ==
    /\ dstatus = "unterminated"
    /\ Len(words) >= 2
    /\ Len(dout) >= 1

\* C9: decoding a word list received from the wire never panics.
C9_NeverPanics == dstatus \notin {"unterminated", "overflow"}

----------------------------------------------------------------------------
(* Properties of the builder and the handshake *)

\* C4: when a listener and a caller complete the handshake, the agreed
\* tsbpd_latency of either side, and of the socket the builder returns, is the
\* larger of the latency set on the local builder and the latency the peer
\* proposed.
C4_LatencyNegotiation ==
    (builder # None /\ {ep["local"].role, ep["peer"].role} = {"listen", "connect"}) =>
        LET agreed == Max(builder[1].latency, ep["peer"].latency)
        IN  /\ \A e \in Endpoints : ep[e].state = "Connected" => ep[e].tsbpd = agreed
            /\ (result.kind = "Socket" => result.latency = agreed)

\* a listener built with the larger latency has returned its socket, and the
\* calling peer is connected as well
C4_Witness ==
    /\ result.kind = "Socket"
    /\ ep["local"].role = "listen"
    /\ ep["peer"].role = "connect"
    /\ ep["peer"].state = "Connected"
    /\ builder[1].latency = 123
    /\ ep["peer"].latency = 99
    /\ result.latency = 123

\* C6: a builder made by new_rendezvous(to) has the connection method
\* Rendezvous(to), and connecting with it runs the rendezvous handshake
\* towards to.
C6_RendezvousConstruction ==
    made_by.ctor = "new_rendezvous" =>
        /\ conn_type(builder[1]) = Rendezvous(made_by.to)
        /\ (ep["local"].role # "none" =>
                /\ ep["local"].role = "rendezvous"
                /\ ep["local"].remote = made_by.to)

\* the crypto setting is none or one of the sizes 16, 24, 32
CryptoSizeOk(b) == b.crypto = None \/ b.crypto[1][1] \in {16, 24, 32}

\* C10: once a build method was called on a builder with a crypto size other
\* than 16, 24 or 32 it has returned the invalid-crypto-size error and no
\* handshake runs; with no crypto or a valid size that error is never returned.
C10_InvalidCryptoRejected ==
    (builder # None /\ call # "none") =>
        IF CryptoSizeOk(builder[1])
        THEN result # Err("InvalidCryptoSize")
        ELSE result = Err("InvalidCryptoSize") /\ ep["local"].role = "none"

----------------------------------------------------------------------------
(* Properties of the session *)

\* C5: the messages recv has returned are in strict send order: each one was
\* sent after the one returned before it, so none is returned twice.
C5_InOrderDelivery ==
    \A i \in 1..(Len(delivered) - 1) : delivered[i] < delivered[i + 1]

\* a lost packet was retransmitted after a Nak and every message was delivered,
\* across the sequence number wrap
C5_Witness ==
    /\ Len(delivered) = MaxMsgs
    /\ \E p \in chan : p.rtx
    /\ last_released = SeqOf(MaxMsgs - 1)

----------------------------------------------------------------------------
(* Further properties of the encoder *)

\* every element of l is the successor of the one before it
Contiguous(l) == \A i \in 1..(Len(l) - 1) : l[i + 1] = SeqAdd(l[i], 1)

\* the number of input elements the words ws stand for: one for a plain word
\* and for a run start still waiting for its end, the length of the run for a
\* run start with its end
RECURSIVE Covered(_)
Covered(ws) ==
    IF ws = <<>> THEN 0
    ELSE IF ~HasMsb(ws[1]) \/ Len(ws) = 1 THEN 1 + Covered(Tail(ws))
    ELSE SeqDist(ws[1].low, ws[2].low) + 1 + Covered(Tail(Tail(ws)))

\* C11: on a strictly ascending input the encoder never has emitted more words
\* than the input has elements, and on an input that is one contiguous run of
\* two or more numbers it ends with exactly two words.
C11_CompressionBound ==
    StrictlyAscending(xs) =>
        /\ Len(eout) <= Len(xs)
        /\ (estatus = "done" /\ Len(xs) >= 2 /\ Contiguous(xs) => Len(eout) = 2)

\* the encoder has ended on a contiguous run of at least three numbers
C11_Witness ==
    /\ estatus = "done"
    /\ Len(xs) >= 3
    /\ StrictlyAscending(xs)
    /\ Contiguous(xs)
    /\ Len(eout) = 2

\* C12: between two calls of next the encoder has pulled exactly the input
\* elements its words stand for, plus the lookahead element if there is one,
\* and when both last_in_loop and the lookahead are present the lookahead is
\* last_in_loop + 1.
C12_LazyState ==
    estatus \in {"running", "done"} =>
        /\ epos = Covered(eout) + (IF next = None THEN 0 ELSE 1)
        /\ (last_in_loop # None /\ next # None => next[1] = SeqAdd(last_in_loop[1], 1))

\* between two calls, after a first run was emitted, a second run has just
\* been started: both fields are present
C12_Witness ==
    /\ estatus = "running"
    /\ Len(eout) = 3
    /\ last_in_loop # None
    /\ next # None

\* C13: on a strictly ascending input every emitted run start is followed by a
\* word with bit 31 clear that lies after it (its run end), so no two run
\* starts are adjacent; the complete output does not end in a run start, and
\* decoding it never fails for an unterminated run.
C13_OutputWellFormed ==
    StrictlyAscending(xs) =>
        /\ \A i \in 1..(Len(eout) - 1) :
              HasMsb(eout[i]) =>
                  ~HasMsb(eout[i + 1]) /\ SeqLt(eout[i].low, eout[i + 1].low)
        /\ (estatus = "done" => ~EndsInRunStart(eout))
        /\ (estatus = "done" /\ eout # <<>> => ~HasMsb(eout[Len(eout)]))
        /\ dstatus # "unterminated"

\* the decoder runs on a complete output that holds two runs
C13_Witness ==
    /\ dstatus = "running"
    /\ StrictlyAscending(xs)
    /\ Len(words) = 4
    /\ HasMsb(words[1])
    /\ HasMsb(words[3])
    /\ dpos = 4

----------------------------------------------------------------------------
(* Further properties of the builder *)

\* C14: conn_type() is the method given to `new` (Listen for new_listen,
\* Connect(to) for new_connect) and no later call changes it, for any
\* constructor; local_addr keeps the port, local_port keeps the IP, and each
\* of the four setters leaves the settings of the other three as they are.
C14_BuilderFrame ==
    /\ [](made_by.ctor = "new" => conn_type(builder[1]) = made_by.ct)
    /\ [](made_by.ctor = "new_listen" => conn_type(builder[1]) = Listen)
    /\ [](made_by.ctor = "new_connect" => conn_type(builder[1]) = Connect(made_by.to))
    /\ [][builder # None => conn_type(builder'[1]) = conn_type(builder[1])]_vars
    /\ [][LocalAddr =>
            /\ builder'[1].local_addr.port = builder[1].local_addr.port
            /\ builder'[1].latency = builder[1].latency
            /\ builder'[1].crypto = builder[1].crypto]_vars
    /\ [][LocalPort =>
            /\ builder'[1].local_addr.ip = builder[1].local_addr.ip
            /\ builder'[1].latency = builder[1].latency
            /\ builder'[1].crypto = builder[1].crypto]_vars
    /\ [][Latency =>
            /\ builder'[1].local_addr = builder[1].local_addr
            /\ builder'[1].crypto = builder[1].crypto]_vars
    /\ [][Crypto =>
            /\ builder'[1].local_addr = builder[1].local_addr
            /\ builder'[1].latency = builder[1].latency]_vars

\* a builder made by new(Rendezvous(..)) after all four setters were called
C14_Witness ==
    /\ made_by.ctor = "new"
    /\ call = "none"
    /\ conn_type(builder[1]).kind = "Rendezvous"
    /\ builder[1].local_addr = [ip |-> "127.0.0.1", port |-> 3333]
    /\ builder[1].latency = 123
    /\ builder[1].crypto # None

\* C15: no builder holds a crypto size other than 16, 24 or 32, because
\* crypto panics on such a size.
C15_CryptoPanics == builder # None => CryptoSizeOk(builder[1])

\* C16: build_multiplexed returns a server only for a Listen builder, bound to
\* the builder's local address with the builder's latency; for a Connect or
\* Rendezvous builder it returns the not-listen error; it never starts a
\* handshake.
C16_MultiplexedListenOnly ==
    call = "build_multiplexed" =>
        /\ (conn_type(builder[1]).kind # "Listen" => result = Err("NotListen"))
        /\ (result.kind = "Server" =>
                /\ conn_type(builder[1]) = Listen
                /\ result.addr = builder[1].local_addr
                /\ result.latency = builder[1].latency)
        /\ result.kind \in {"Server", "Err"}
        /\ ep["local"].role = "none"

\* a Listen builder with its own address and latency has bound its server
C16_Witness ==
    /\ call = "build_multiplexed"
    /\ result.kind = "Server"
    /\ result.addr = [ip |-> "127.0.0.1", port |-> 3333]
    /\ result.latency = 99

====
